---- MODULE Spec2Model ----
(***************************************************************************)
(* mirage-msw: the MSW interceptor of MirageJS.                            *)
(*                                                                         *)
(* The model covers src/lib/passthrough-registry.ts: the PassthroughRegistry*)
(* (lines 1-84) and the MswConfig adapter (lines 627-1056) with its path   *)
(* resolver _getFullPath, passthrough, start and the unhandled-request hook.*)
(*                                                                         *)
(* JavaScript strings that the code slices, tests and concatenates (paths, *)
(* prefixes, namespaces, URLs, hosts) are sequences of one-character        *)
(* strings, so that slice, substring, trim, the regular expressions and    *)
(* the URL parser are computed character by character.  HTTP verbs are     *)
(* only ever upper-cased and compared, and are TLA+ strings.               *)
(***************************************************************************)
EXTENDS Integers, Sequences, FiniteSets, TLC

\* ------------------------------------------------------------------------
\* Bounds of the model
\* ------------------------------------------------------------------------

\* longest path enumerated exhaustively over PathAlphabet by the resolver spec
MaxPathLen == 3
\* longest tail enumerated after an http:// or https:// scheme
MaxTailLen == 2
\* number of registry add calls in a behaviour of the registry spec
MaxAdds == 3
\* number of adapter calls in a behaviour of the adapter spec
MaxCalls == 2

\* ------------------------------------------------------------------------
\* JavaScript values
\* ------------------------------------------------------------------------

\* the value of a field that was never assigned; no string equals it
undefined == <<"undefined">>

\* JavaScript truthiness of a string-or-undefined value
Truthy(s) == s # undefined /\ s # <<>>

\* a || b || '' on string-or-undefined values
OrElse(a, b) == IF Truthy(a) THEN a ELSE IF Truthy(b) THEN b ELSE <<>>

\* s.substring(from, to) with 0-based from (inclusive) and to (exclusive)
substring(s, from, to) == SubSeq(s, from + 1, to)

\* s.slice(1) / s.substring(1)
slice1(s) == SubSeq(s, 2, Len(s))

\* s[0] and s[s.length - 1]; the empty string yields undefined
charAt0(s) == IF Len(s) > 0 THEN s[1] ELSE "undefined"
charAtLast(s) == IF Len(s) > 0 THEN s[Len(s)] ELSE "undefined"

StartsWith(s, pre) == Len(s) >= Len(pre) /\ SubSeq(s, 1, Len(pre)) = pre

RECURSIVE trimStart(_)
trimStart(s) == IF Len(s) > 0 /\ s[1] = " " THEN trimStart(Tail(s)) ELSE s

RECURSIVE trimEnd(_)
trimEnd(s) ==
    IF Len(s) > 0 /\ s[Len(s)] = " " THEN trimEnd(SubSeq(s, 1, Len(s) - 1)) ELSE s

\* s.trim()
trim(s) == trimEnd(trimStart(s))

HTTP == <<"h", "t", "t", "p", ":", "/", "/">>
HTTPS == <<"h", "t", "t", "p", "s", ":", "/", "/">>

\* /^https?:\/\//.test(s)
isFQDN(s) == StartsWith(s, HTTP) \/ StartsWith(s, HTTPS)

\* mutant of dedupSlashes: replace without the g flag, which collapses the
\* first run of slashes only
dedupSlashes_firstRunOnly(s) ==
    LET runs == {i \in 1..Len(s) : s[i] = "/"}
    IN  IF runs = {} THEN s
        ELSE LET first == CHOOSE i \in runs : \A j \in runs : i <= j
                 after == CHOOSE k \in first..Len(s) :
                              /\ \A j \in first..k : s[j] = "/"
                              /\ (k = Len(s) \/ s[k + 1] # "/")
             IN  SubSeq(s, 1, first) \o SubSeq(s, after + 1, Len(s))

\* s.replace(/\/+/g, '/')
RECURSIVE dedupSlashes(_)
dedupSlashes(s) ==
    IF s = <<>> THEN <<>>
    ELSE IF Len(s) >= 2 /\ s[1] = "/" /\ s[2] = "/" THEN dedupSlashes(Tail(s))
    ELSE <<Head(s)>> \o dedupSlashes(Tail(s))

\* ------------------------------------------------------------------------
\* MswConfig._getFullPath
\* ------------------------------------------------------------------------

\* the namespace fragment when both this.urlPrefix and this.namespace are set
namespaceWithPrefix(ns) ==
    IF charAt0(ns) = "/" /\ charAtLast(ns) = "/"
        THEN slice1(substring(ns, 0, Len(ns) - 1))
    ELSE IF charAt0(ns) = "/" /\ charAtLast(ns) # "/"
        THEN slice1(ns)
    ELSE IF charAt0(ns) # "/" /\ charAtLast(ns) = "/"
        THEN substring(ns, 0, Len(ns) - 1)
    ELSE ns

\* mutant of namespaceWithoutPrefix: the trailing "/" is cut one character
\* too far
namespaceWithoutPrefix_cutsTooFar(ns) ==
    IF charAt0(ns) = "/" /\ charAtLast(ns) = "/"
        THEN substring(ns, 0, Len(ns) - 2)
    ELSE IF charAt0(ns) = "/" /\ charAtLast(ns) # "/"
        THEN ns
    ELSE IF charAt0(ns) # "/" /\ charAtLast(ns) = "/"
        THEN <<"/">> \o substring(ns, 0, Len(ns) - 2)
    ELSE <<"/">> \o ns

\* the namespace fragment when this.namespace is set and this.urlPrefix is not
namespaceWithoutPrefix(ns) ==
    IF charAt0(ns) = "/" /\ charAtLast(ns) = "/"
        THEN substring(ns, 0, Len(ns) - 1)
    ELSE IF charAt0(ns) = "/" /\ charAtLast(ns) # "/"
        THEN ns
    ELSE IF charAt0(ns) # "/" /\ charAtLast(ns) = "/"
        THEN <<"/">> \o substring(ns, 0, Len(ns) - 1)
    ELSE <<"/">> \o ns

\* mutant of assemble: runs of slashes are collapsed in a full URL too
assemble_collapsesAll(path, prefixT, nsFragment) ==
    LET withPrefix ==
            IF Len(prefixT) > 0
                THEN (IF charAtLast(prefixT) = "/" THEN prefixT ELSE prefixT \o <<"/">>)
                ELSE <<>>
        withNs == withPrefix \o nsFragment
        withSlash == IF charAtLast(withNs) # "/" THEN withNs \o <<"/">> ELSE withNs
        fullPath == withSlash \o path
    IN  IF ~isFQDN(fullPath) THEN dedupSlashes(<<"/">> \o fullPath)
        ELSE dedupSlashes(fullPath)

\* mutant of assemble: the prefix is not given its trailing "/"
assemble_noPrefixSlash(path, prefixT, nsFragment) ==
    LET withNs == prefixT \o nsFragment
        withSlash == IF charAtLast(withNs) # "/" THEN withNs \o <<"/">> ELSE withNs
        fullPath == withSlash \o path
    IN  IF ~isFQDN(fullPath) THEN dedupSlashes(<<"/">> \o fullPath) ELSE fullPath

\* the assembled path of a path that is not itself a full URL
assemble(path, prefixT, nsFragment) ==
    LET withPrefix ==
            IF Len(prefixT) > 0
                THEN (IF charAtLast(prefixT) = "/" THEN prefixT ELSE prefixT \o <<"/">>)
                ELSE <<>>
        withNs == withPrefix \o nsFragment
        withSlash == IF charAtLast(withNs) # "/" THEN withNs \o <<"/">> ELSE withNs
        fullPath == withSlash \o path
    IN  IF ~isFQDN(fullPath) THEN dedupSlashes(<<"/">> \o fullPath) ELSE fullPath

\* mutant of _getFullPath: the full-URL test looks at the path before its
\* leading "/" is stripped
getFullPath_testsRawPath(pathArg, thisUrlPrefix, thisNamespace) ==
    LET path == IF charAt0(pathArg) = "/" THEN slice1(pathArg) ELSE pathArg
        prefixT == IF Truthy(thisUrlPrefix) THEN trim(thisUrlPrefix) ELSE <<>>
        nsFragment ==
            IF Truthy(thisUrlPrefix) /\ Truthy(thisNamespace)
                THEN namespaceWithPrefix(thisNamespace)
            ELSE IF Truthy(thisNamespace)
                THEN namespaceWithoutPrefix(thisNamespace)
            ELSE <<>>
    IN  IF isFQDN(pathArg) THEN path ELSE assemble(path, prefixT, nsFragment)

\* _getFullPath(path) of an adapter whose fields are thisUrlPrefix, thisNamespace
_getFullPath(pathArg, thisUrlPrefix, thisNamespace) ==
    LET path == IF charAt0(pathArg) = "/" THEN slice1(pathArg) ELSE pathArg
        prefixT == IF Truthy(thisUrlPrefix) THEN trim(thisUrlPrefix) ELSE <<>>
        nsFragment ==
            IF Truthy(thisUrlPrefix) /\ Truthy(thisNamespace)
                THEN namespaceWithPrefix(thisNamespace)
            ELSE IF Truthy(thisNamespace)
                THEN namespaceWithoutPrefix(thisNamespace)
            ELSE <<>>
    IN  IF isFQDN(path) THEN path ELSE assemble(path, prefixT, nsFragment)

\* ------------------------------------------------------------------------
\* HTTP verbs
\* ------------------------------------------------------------------------

allVerbs == <<"GET", "PUT", "POST", "DELETE", "PATCH", "HEAD", "OPTIONS">>

\* v.toUpperCase() on the verb strings callers pass in the model: the
\* HTTPVerb values, "GET" and "Post" in other spellings, and "trace", which
\* is no HTTPVerb
toUpperCase(v) ==
    CASE v \in {"get", "GET"} -> "GET"
      [] v \in {"put"} -> "PUT"
      [] v \in {"post", "Post"} -> "POST"
      [] v \in {"delete"} -> "DELETE"
      [] v \in {"patch"} -> "PATCH"
      [] v \in {"head"} -> "HEAD"
      [] v \in {"options"} -> "OPTIONS"
      [] v \in {"trace"} -> "TRACE"
      [] OTHER -> v

Range(seq) == {seq[i] : i \in 1..Len(seq)}

\* a verbs argument: undefined, an array of verb strings, or a value that is
\* not an array (a single verb string)
VerbsUndefined == [kind |-> "undefined"]
VerbsArray(items) == [kind |-> "array", items |-> items]
VerbsString(v) == [kind |-> "string", value |-> v]

\* Array.isArray(verbs)
isArray(verbs) == verbs.kind = "array"

\* ------------------------------------------------------------------------
\* new URL(url): host and pathname of an http(s) URL
\* ------------------------------------------------------------------------

\* index of the first "/" of s, or Len(s) + 1
RECURSIVE firstSlash(_, _)
firstSlash(s, i) ==
    IF i > Len(s) THEN i ELSE IF s[i] = "/" THEN i ELSE firstSlash(s, i + 1)

\* s without its leading slashes (a special scheme's authority may follow
\* any number of slashes)
RECURSIVE skipSlashes(_)
skipSlashes(s) == IF Len(s) > 0 /\ s[1] = "/" THEN skipSlashes(Tail(s)) ELSE s

Digits == <<"0", "1", "2", "3", "4", "5", "6", "7", "8", "9">>

isDigit(c) == \E d \in 1..10 : Digits[d] = c

\* the number a string of decimal digits denotes
RECURSIVE decimalValue(_)
decimalValue(s) ==
    IF s = <<>> THEN 0
    ELSE decimalValue(SubSeq(s, 1, Len(s) - 1)) * 10
            + ((CHOOSE d \in 1..10 : Digits[d] = s[Len(s)]) - 1)

\* the decimal digits of a number
RECURSIVE decimalString(_)
decimalString(n) ==
    IF n < 10 THEN <<Digits[n + 1]>>
    ELSE decimalString(n \div 10) \o <<Digits[(n % 10) + 1]>>

\* the index of the last ":" of s, 0 when there is none
lastColon(s) ==
    LET colons == {i \in 1..Len(s) : s[i] = ":"}
    IN  IF colons = {} THEN 0 ELSE CHOOSE i \in colons : \A j \in colons : j <= i

\* the port a scheme implies
defaultPort(scheme) == IF scheme = HTTP THEN 80 ELSE 443

\* mutant of parseURL: the host is the host name without its port
parseURL_hostnameOnly(url) ==
    IF ~isFQDN(url) THEN [ok |-> FALSE]
    ELSE
        LET scheme == IF StartsWith(url, HTTP) THEN HTTP ELSE HTTPS
            authority == skipSlashes(SubSeq(url, Len(scheme) + 1, Len(url)))
            cut == firstSlash(authority, 1)
            hostport == SubSeq(authority, 1, cut - 1)
            rest == SubSeq(authority, cut, Len(authority))
            colon == lastColon(hostport)
            hostname == IF colon = 0 THEN hostport ELSE SubSeq(hostport, 1, colon - 1)
            pathname == IF rest = <<>> THEN <<"/">> ELSE rest
        IN  IF hostname = <<>> THEN [ok |-> FALSE]
            ELSE [ok |-> TRUE, host |-> hostname, pathname |-> pathname,
                  href |-> scheme \o hostname \o pathname]

\* new URL(url) without a base: [ok |-> FALSE] stands for the TypeError it
\* throws.  Covers the URLs of the model: scheme http or https, a host with
\* or without a port, no user info, query or fragment, and a path without
\* dot segments or characters that are percent-encoded.  The host keeps the
\* port unless it is the port the scheme implies.
parseURL(url) ==
    IF ~isFQDN(url) THEN [ok |-> FALSE]
    ELSE
        LET scheme == IF StartsWith(url, HTTP) THEN HTTP ELSE HTTPS
            authority == skipSlashes(SubSeq(url, Len(scheme) + 1, Len(url)))
            cut == firstSlash(authority, 1)
            hostport == SubSeq(authority, 1, cut - 1)
            rest == SubSeq(authority, cut, Len(authority))
            colon == lastColon(hostport)
            hostname == IF colon = 0 THEN hostport ELSE SubSeq(hostport, 1, colon - 1)
            port == IF colon = 0 THEN <<>> ELSE SubSeq(hostport, colon + 1, Len(hostport))
            pathname == IF rest = <<>> THEN <<"/">> ELSE rest
            host ==
                IF port = <<>> \/ decimalValue(port) = defaultPort(scheme)
                    THEN hostname
                    ELSE hostname \o <<":">> \o decimalString(decimalValue(port))
        IN  IF hostname = <<>> THEN [ok |-> FALSE]
            ELSE IF \E k \in 1..Len(port) : ~isDigit(port[k]) THEN [ok |-> FALSE]
            ELSE IF decimalValue(port) > 65535 THEN [ok |-> FALSE]
            ELSE [ok |-> TRUE, host |-> host, pathname |-> pathname,
                  href |-> scheme \o host \o pathname]

\* ------------------------------------------------------------------------
\* RouteRecognizer (route-recognizer 0.3): a recognizer is the set of the
\* route paths added to it
\* ------------------------------------------------------------------------

\* s.split("/")
RECURSIVE split(_)
split(s) ==
    LET cut == firstSlash(s, 1)
    IN  IF cut > Len(s) THEN <<s>>
        ELSE <<SubSeq(s, 1, cut - 1)>> \o split(SubSeq(s, cut + 1, Len(s)))

\* the segments of a route: the parts between slashes, the empty ones
\* (epsilon segments) dropped
segments(route) ==
    LET r == IF charAt0(route) = "/" THEN slice1(route) ELSE route
    IN  SelectSeq(split(r), LAMBDA part : part # <<>>)

\* whether the segments match the whole of path, each segment after a "/":
\* a ":name" segment takes one or more characters other than "/", a "*name"
\* segment one or more characters of any kind, any other segment itself
RECURSIVE matchSegments(_, _)
matchSegments(segs, path) ==
    IF segs = <<>> THEN path = <<>>
    ELSE
        /\ Len(path) > 0
        /\ path[1] = "/"
        /\ LET seg == Head(segs)
               rest == Tail(path)
           IN  CASE seg[1] = ":" ->
                        \E k \in 1..Len(rest) :
                            /\ \A i \in 1..k : rest[i] # "/"
                            /\ matchSegments(Tail(segs), SubSeq(rest, k + 1, Len(rest)))
                 [] seg[1] = "*" ->
                        \E k \in 1..Len(rest) :
                            matchSegments(Tail(segs), SubSeq(rest, k + 1, Len(rest)))
                 [] OTHER ->
                        /\ StartsWith(rest, seg)
                        /\ matchSegments(Tail(segs), SubSeq(rest, Len(seg) + 1, Len(rest)))

\* whether one route matches a path given to recognize: the path gets a
\* leading "/" and loses one trailing "/"
routeMatches(route, pathArg) ==
    LET p1 == IF charAt0(pathArg) # "/" THEN <<"/">> \o pathArg ELSE pathArg
        p2 == IF Len(p1) > 1 /\ charAtLast(p1) = "/"
                  THEN SubSeq(p1, 1, Len(p1) - 1) ELSE p1
        segs == segments(route)
    IN  IF segs = <<>> THEN p2 = <<"/">> ELSE matchSegments(segs, p2)

\* new RouteRecognizer() followed by recognizer.add([{path, handler}])
newRecognizer(path) == {path}

\* existingRecognizer.add([{path, handler}])
recognizerAdd(recognizer, path) == recognizer \cup {path}

\* recognizer.recognize(path)?.[0] is defined
recognize(recognizer, path) == \E route \in recognizer : routeMatches(route, path)

\* ------------------------------------------------------------------------
\* PassthroughRegistry
\* ------------------------------------------------------------------------

\* a Map without entries
emptyMap == [k \in {} |-> {}]

\* map.set(key, value)
mapSet(map, key, value) ==
    [k \in DOMAIN map \cup {key} |-> IF k = key THEN value ELSE map[k]]

\* mutant of matchingVerbs: the user's verbs are compared as written, not
\* upper-cased
matchingVerbs_asWritten(verbs) ==
    IF ~isArray(verbs) \/ Len(verbs.items) = 0
        THEN Range(allVerbs)
        ELSE {v \in Range(allVerbs) : v \in Range(verbs.items)}

\* the verbs of allVerbs that createPassthroughRegistry keeps
matchingVerbs(verbs) ==
    IF ~isArray(verbs) \/ Len(verbs.items) = 0
        THEN Range(allVerbs)
        ELSE {v \in Range(allVerbs) : v \in {toUpperCase(u) : u \in Range(verbs.items)}}

\* createPassthroughRegistry(path, verbs): verbs.map(...) runs first and
\* throws a TypeError when verbs is not an array
createPassthroughRegistry(path, verbs) ==
    IF ~isArray(verbs) THEN [thrown |-> "TypeError: verbs.map"]
    ELSE [thrown |-> "none",
          registry |-> [mv \in matchingVerbs(verbs) |-> newRecognizer(path)]]

\* the verbs add sets on the registry of a known host
verbsToSet(verbs) ==
    IF isArray(verbs) /\ Len(verbs.items) > 0
        THEN {toUpperCase(v) : v \in Range(verbs.items)}
        ELSE Range(allVerbs)

\* mutant of amendRegistry: every verb set gets a fresh recognizer, the
\* existing one is not extended
amendRegistry_fresh(registry, pathname, verbs) ==
    [v \in DOMAIN registry \cup verbsToSet(verbs) |->
        IF v \in verbsToSet(verbs) THEN newRecognizer(pathname) ELSE registry[v]]

\* the registry of a known host after add's forEach over verbsToSet
amendRegistry(registry, pathname, verbs) ==
    [v \in DOMAIN registry \cup verbsToSet(verbs) |->
        IF v \in verbsToSet(verbs)
            THEN (IF v \in DOMAIN registry
                      THEN recognizerAdd(registry[v], pathname)
                      ELSE newRecognizer(pathname))
            ELSE registry[v]]

\* mutant of add: a URL that does not parse is skipped without an error
add_skipsMalformed(regs, url, verbs) ==
    LET parsed == parseURL(url)
    IN  IF ~parsed.ok THEN [registries |-> regs, thrown |-> "none"]
        ELSE IF parsed.host \notin DOMAIN regs
            THEN LET created == createPassthroughRegistry(parsed.pathname, verbs)
                 IN  IF created.thrown # "none"
                         THEN [registries |-> regs, thrown |-> created.thrown]
                         ELSE [registries |-> mapSet(regs, parsed.host, created.registry),
                               thrown |-> "none"]
            ELSE [registries |->
                      mapSet(regs, parsed.host,
                             amendRegistry(regs[parsed.host], parsed.pathname, verbs)),
                  thrown |-> "none"]

\* PassthroughRegistry.add(url, verbs) on the hosts map regs: the hosts map
\* after the call and what the call threw
add(regs, url, verbs) ==
    LET parsed == parseURL(url)
    IN  IF ~parsed.ok THEN [registries |-> regs, thrown |-> "TypeError: Invalid URL"]
        ELSE IF parsed.host \notin DOMAIN regs
            THEN LET created == createPassthroughRegistry(parsed.pathname, verbs)
                 IN  IF created.thrown # "none"
                         THEN [registries |-> regs, thrown |-> created.thrown]
                         ELSE [registries |-> mapSet(regs, parsed.host, created.registry),
                               thrown |-> "none"]
            ELSE [registries |->
                      mapSet(regs, parsed.host,
                             amendRegistry(regs[parsed.host], parsed.pathname, verbs)),
                  thrown |-> "none"]

\* PassthroughRegistry.retrieve(host): [found |-> FALSE] stands for undefined
retrieve(regs, host) ==
    IF host \in DOMAIN regs THEN [found |-> TRUE, registry |-> regs[host]]
    ELSE [found |-> FALSE]

\* retrieve(host)?.get(verb)?.recognize(path)?.[0] is defined
lookup(regs, host, verb, path) ==
    LET r == retrieve(regs, host)
    IN  /\ r.found
        /\ verb \in DOMAIN r.registry
        /\ recognize(r.registry[verb], path)

\* ------------------------------------------------------------------------
\* MswConfig: the adapter instance
\* ------------------------------------------------------------------------

VARIABLES
    urlPrefix,          \* this.urlPrefix
    namespace,          \* this.namespace
    mirageServer,       \* this.mirageServer is set (create has run)
    handlers,           \* this.handlers: the handlers queued for the next worker
    msw,                \* this.msw: the worker, its handlers and whether it runs
    passthroughs,       \* this.passthroughs: the hosts map of the registry
    passthroughChecks,  \* this.passthroughChecks
    registered,         \* the registerRouteHandler calls the mocking server received
    declared,           \* how many routes and passthroughs were declared so far
    resolvers,          \* the resolver calls that have not returned yet, each
                        \* suspended at an await
    timing,             \* this.timing
    call                \* the last call made: its arguments, its outcome and
                        \* the registry it started from

vars == <<urlPrefix, namespace, mirageServer, handlers, msw, passthroughs,
          passthroughChecks, registered, declared, resolvers, timing, call>>

\* the fields of a constructed MswConfig
NoWorker == [defined |-> FALSE]
NoCall == [op |-> "constructor"]

\* this.timing: unset, or a number of milliseconds
NoTiming == [defined |-> FALSE]
Timing(ms) == [defined |-> TRUE, ms |-> ms]

\* the verbs passthrough uses when no verb list is given
defaultPassthroughVerbs ==
    <<"get", "post", "put", "delete", "patch", "options", "head">>

\* the paths passthrough uses when called without arguments
defaultPassthroughPaths == << <<"/", "*", "*">>, <<"/">> >>

\* passthrough arguments: a path string, a verb list, or a predicate function
ArgString(s) == [kind |-> "string", value |-> s]
ArgArray(items) == [kind |-> "array", items |-> items]
ArgFunction(f) == [kind |-> "function", value |-> f]

\* the verbs passthrough hands to the registry
passthroughVerbs(args) ==
    IF Len(args) > 0 /\ args[Len(args)].kind = "array"
        THEN VerbsArray(args[Len(args)].items)
        ELSE VerbsArray(defaultPassthroughVerbs)

\* mutant of passthroughPaths: the defaults stand in whenever no path
\* string is given
passthroughPaths_defaultsWithoutPath(args) ==
    LET given == SelectSeq(args, LAMBDA arg : arg.kind = "string")
        defaults == [i \in 1..Len(defaultPassthroughPaths) |->
                        ArgString(defaultPassthroughPaths[i])]
    IN  IF Len(given) = 0 THEN defaults ELSE given

\* the paths passthrough walks: the defaults when there is no argument, then
\* every argument whose typeof is 'string', in order
passthroughPaths(args) ==
    LET given == SelectSeq(args, LAMBDA arg : arg.kind = "string")
        defaults == [i \in 1..Len(defaultPassthroughPaths) |->
                        ArgString(defaultPassthroughPaths[i])]
    IN  IF Len(args) = 0 THEN defaults ELSE given

\* mutant of forEachPath: a path whose add throws is skipped, the paths
\* after it are still registered, and the error is raised at the end
RECURSIVE forEachPath_continues(_, _, _, _, _, _)
forEachPath_continues(regs, checks, paths, verbs, thisUrlPrefix, thisNamespace) ==
    IF paths = <<>>
        THEN [registries |-> regs, checks |-> checks, thrown |-> "none"]
    ELSE IF Head(paths).kind = "function"
        THEN forEachPath_continues(regs, Append(checks, Head(paths).value),
                                   Tail(paths), verbs, thisUrlPrefix, thisNamespace)
    ELSE
        LET fullPath == _getFullPath(Head(paths).value, thisUrlPrefix, thisNamespace)
            added == add(regs, fullPath, verbs)
            rest == forEachPath_continues(added.registries, checks, Tail(paths),
                                          verbs, thisUrlPrefix, thisNamespace)
        IN  IF added.thrown # "none"
                THEN [registries |-> rest.registries, checks |-> rest.checks,
                      thrown |-> added.thrown]
                ELSE rest

\* paths.forEach(path => ...): a path whose typeof is 'function' is pushed
\* on the checks, any other is resolved and added to the registry; the
\* first add that throws ends the loop and the call
RECURSIVE forEachPath(_, _, _, _, _, _)
forEachPath(regs, checks, paths, verbs, thisUrlPrefix, thisNamespace) ==
    IF paths = <<>>
        THEN [registries |-> regs, checks |-> checks, thrown |-> "none"]
    ELSE IF Head(paths).kind = "function"
        THEN forEachPath(regs, Append(checks, Head(paths).value), Tail(paths),
                         verbs, thisUrlPrefix, thisNamespace)
    ELSE
        LET fullPath == _getFullPath(Head(paths).value, thisUrlPrefix, thisNamespace)
            added == add(regs, fullPath, verbs)
        IN  IF added.thrown # "none"
                THEN [registries |-> added.registries, checks |-> checks,
                      thrown |-> added.thrown]
                ELSE forEachPath(added.registries, checks, Tail(paths), verbs,
                                 thisUrlPrefix, thisNamespace)

\* MswConfig.passthrough(...args): the registry, the checks and the error
\* after the call
passthrough(regs, checks, args, thisUrlPrefix, thisNamespace) ==
    forEachPath(regs, checks, passthroughPaths(args), passthroughVerbs(args),
                thisUrlPrefix, thisNamespace)

\* window.location.host of the page
locationHost == <<"h">>

\* this.passthroughChecks.some(check => check(req)): req.trueOf holds the
\* predicates that return true for the request
shouldPassthrough(checks, req) ==
    \E i \in 1..Len(checks) : checks[i] \in req.trueOf

\* mutant of requestMatch: the request's method is looked up as written,
\* not upper-cased
requestMatch_methodAsWritten(regs, req) ==
    LET requestUrl == parseURL(req.url)
    IN  lookup(regs, requestUrl.host, req.method, requestUrl.pathname)

\* the registry lookup of the hook: retrieve(host)?.get(verb)?.recognize(path)
requestMatch(regs, req) ==
    LET requestUrl == parseURL(req.url)
    IN  lookup(regs, requestUrl.host, toUpperCase(req.method), requestUrl.pathname)

\* the warning of the hook for a request that is not passed through
warning(req, thisNamespace) ==
    [verb |-> toUpperCase(req.method),
     href |-> parseURL(req.url).href,
     namespaceError |->
        IF thisNamespace = <<>>
            THEN <<"There is no existing namespace defined.">>
            ELSE <<"The existing namespace is ">> \o thisNamespace]

\* no warning
NoWarning == [verb |-> "none"]

\* mutant of onUnhandledRequest: the warning does not look at the host of
\* the request
onUnhandledRequest_anyHost(regs, checks, req, server, shouldLog, thisNamespace) ==
    LET pass == shouldPassthrough(checks, req) \/ requestMatch(regs, req)
        warned == ~pass /\ server /\ shouldLog
    IN  [passthrough |-> pass,
         logged |-> pass /\ server /\ shouldLog,
         warned |-> warned,
         warning |-> IF warned THEN warning(req, thisNamespace) ELSE NoWarning]

\* the onUnhandledRequest hook: whether the request is passed through,
\* whether that is logged, and the warning that is emitted if any; server
\* tells whether this.mirageServer is set and shouldLog what its shouldLog()
\* returns
onUnhandledRequest(regs, checks, req, server, shouldLog, thisNamespace) ==
    LET requestUrl == parseURL(req.url)
        pass == shouldPassthrough(checks, req) \/ requestMatch(regs, req)
        warned == ~pass /\ requestUrl.host # locationHost /\ server /\ shouldLog
    IN  [passthrough |-> pass,
         logged |-> pass /\ server /\ shouldLog,
         warned |-> warned,
         warning |-> IF warned THEN warning(req, thisNamespace) ELSE NoWarning]

\* ------------------------------------------------------------------------
\* The msw handler of a route
\* ------------------------------------------------------------------------

UpperCaseLetters ==
    <<"A", "B", "C", "D", "E", "F", "G", "H", "I", "J", "K", "L", "M",
      "N", "O", "P", "Q", "R", "S", "T", "U", "V", "W", "X", "Y", "Z">>

LowerCaseLetters ==
    <<"a", "b", "c", "d", "e", "f", "g", "h", "i", "j", "k", "l", "m",
      "n", "o", "p", "q", "r", "s", "t", "u", "v", "w", "x", "y", "z">>

\* s.toLowerCase()
toLowerCase(s) ==
    [i \in 1..Len(s) |->
        IF \E k \in 1..26 : UpperCaseLetters[k] = s[i]
            THEN LowerCaseLetters[CHOOSE k \in 1..26 : UpperCaseLetters[k] = s[i]]
            ELSE s[i]]

\* s.includes(part)
includes(s, part) ==
    \E i \in 1..(Len(s) - Len(part) + 1) : SubSeq(s, i, i + Len(part) - 1) = part

JSONWord == <<"j", "s", "o", "n">>
TextWord == <<"t", "e", "x", "t">>

\* a header the request does not carry: headers.get returns null
null == <<"null">>

\* the text without the white space JSON allows between tokens
withoutSpaces(text) == SelectSeq(text, LAMBDA c : c # " ")

\* the text without spaces is a JSON value.  Covers the bodies of the model:
\* the object without members, arrays of at most one element, and numbers
\* written with digits only.
RECURSIVE isJSONValue(_)
isJSONValue(text) ==
    \/ text = <<"{", "}">>
    \/ /\ Len(text) >= 1
       /\ \A i \in 1..Len(text) : isDigit(text[i])
       /\ Len(text) = 1 \/ text[1] # "0"
    \/ /\ Len(text) >= 2
       /\ text[1] = "["
       /\ text[Len(text)] = "]"
       /\ \/ Len(text) = 2
          \/ isJSONValue(SubSeq(text, 2, Len(text) - 1))

\* JSON.parse(text) throws: the text is not a JSON value, or spaces split a
\* number
JSONparseThrows(text) ==
    \/ ~isJSONValue(withoutSpaces(text))
    \/ \E i \in 1..Len(text), j \in 1..Len(text) :
          /\ i + 1 < j
          /\ isDigit(text[i])
          /\ isDigit(text[j])
          /\ \A k \in (i + 1)..(j - 1) : text[k] = " "

\* JSON.stringify(JSON.parse(text)) of a text that parses: the value
\* written without white space
JSONstringifyParse(text) == withoutSpaces(text)

\* no response body
EmptyBody == <<>>

\* what the response class of the msw build in use does with a body given
\* together with a status that allows none: the Response of the platform,
\* which msw 2.3.0 extends, throws a TypeError; the FetchResponse later msw
\* versions extend drops the body
ResponseBuilds == {"Response", "FetchResponse"}

\* new HttpResponse(body, init)
HttpResponse(form, body, status, build) ==
    IF status = 204 /\ body # undefined
        THEN IF build = "Response"
                THEN [thrown |-> "TypeError"]
                ELSE [thrown |-> "none", form |-> form, status |-> status,
                      body |-> EmptyBody]
        ELSE [thrown |-> "none", form |-> form, status |-> status,
              body |-> IF body = undefined THEN EmptyBody ELSE body]

\* the resolver of the msw handler of a route, from the [status, headers,
\* responseBody] of the route handler of the mocking server on: the response
\* it returns, or what it throws
handleRequest(status, serializedBody, acceptHeader, build) ==
    LET responseBody == IF status = 204 THEN undefined ELSE serializedBody
        accept == IF acceptHeader = null THEN <<>> ELSE toLowerCase(acceptHeader)
        text == OrElse(responseBody, <<"{", "}">>)
    IN  IF includes(accept, JSONWord)
            THEN IF JSONparseThrows(text)
                    THEN [thrown |-> "SyntaxError"]
                    ELSE HttpResponse("json", JSONstringifyParse(text), status, build)
        ELSE IF includes(accept, TextWord)
            THEN HttpResponse("text", responseBody, status, build)
        ELSE [thrown |-> "Error: Only json and text responses are supported"]

\* ------------------------------------------------------------------------
\* Inputs of the adapter specification
\* ------------------------------------------------------------------------

UrlG == HTTP \o <<"g">>
PathA == <<"/", "a">>
PathId == <<"/", ":", "i">>
UrlGB == HTTP \o <<"g", "/", "b">>

\* the urlPrefix and namespace of a mirage configuration
ConfigPrefixes == {undefined, UrlG}
ConfigNamespaces == {undefined, <<"n">>}

\* the paths and verbs of route definitions
\* the namespaces assigned between definitions
AssignedNamespaces == {<<"m">>}

RoutePaths == {PathA}
RouteVerbs == {"get", "post"}

\* the arguments of passthrough declarations
PassVerbLists == {<<"get">>, <<"Post", "trace">>}
Predicates == {"isAsset"}
PassthroughArgs ==
    {<<>>}
    \cup {<<ArgString(p)>> : p \in {PathA, PathId, UrlGB}}
    \cup {<<ArgString(p), ArgArray(vs)>> : p \in {PathA, UrlGB}, vs \in PassVerbLists}
    \cup {<<ArgString(PathA), ArgString(UrlGB)>>, <<ArgString(UrlGB), ArgString(PathA)>>}
    \cup {<<ArgArray(<<"get">>)>>}
    \cup {<<ArgFunction(f)>> : f \in Predicates}

\* the requests that reach the unhandled-request hook: method, URL and the
\* predicates that return true for the request
Request(method, host, path, trueOf) ==
    [method |-> method, url |-> HTTP \o host \o path, trueOf |-> trueOf]
Requests ==
    {Request("GET", <<"g">>, PathA, {}),
     Request("GET", <<"g">>, <<"/", "b">>, {}),
     Request("post", <<"g">>, <<"/", "b">>, {}),
     Request("GET", <<"g">>, <<"/", "a", "/", "b">>, {}),
     Request("TRACE", <<"g">>, <<"/">>, {}),
     Request("GET", <<"h">>, PathA, {}),
     Request("GET", <<"h">>, <<"/", "b">>, {"isAsset"})}
RequestHosts == {<<"h">>, <<"g">>}
RequestPaths == {<<"/">>, PathA, <<"/", "b">>, <<"/", "a", "/", "b">>}

\* ------------------------------------------------------------------------
\* The adapter specification
\* ------------------------------------------------------------------------

Init ==
    /\ urlPrefix = undefined
    /\ namespace = undefined
    /\ mirageServer = FALSE
    /\ handlers = <<>>
    /\ msw = NoWorker
    /\ passthroughs = emptyMap
    /\ passthroughChecks = <<>>
    /\ registered = <<>>
    /\ declared = 0
    /\ resolvers = <<>>
    /\ timing = NoTiming
    /\ call = NoCall

\* mutant of config: the configuration's values replace the ones already set
config_overwrites(cfgPrefix, cfgNamespace) ==
    /\ urlPrefix' = OrElse(cfgPrefix, urlPrefix)
    /\ namespace' = OrElse(cfgNamespace, namespace)

\* MswConfig.config(mirageConfig)
config(cfgPrefix, cfgNamespace) ==
    /\ urlPrefix' = OrElse(urlPrefix, cfgPrefix)
    /\ namespace' = OrElse(namespace, cfgNamespace)

\* mutant of create: the registry is reset together with the handlers
create_resetsRegistry(cfgPrefix, cfgNamespace) ==
    /\ mirageServer' = TRUE
    /\ handlers' = <<>>
    /\ passthroughs' = emptyMap
    /\ config(cfgPrefix, cfgNamespace)
    /\ call' = [op |-> "create", urlPrefix |-> cfgPrefix, namespace |-> cfgNamespace]
    /\ UNCHANGED <<msw, passthroughChecks, registered, declared,
                   resolvers, timing>>

\* MswConfig.create(server, mirageConfig)
create(cfgPrefix, cfgNamespace) ==
    /\ mirageServer' = TRUE
    /\ handlers' = <<>>
    /\ config(cfgPrefix, cfgNamespace)
    /\ call' = [op |-> "create", urlPrefix |-> cfgPrefix, namespace |-> cfgNamespace]
    /\ UNCHANGED <<msw, passthroughs, passthroughChecks, registered, declared,
                   resolvers, timing>>

\* mutant of verbMethod: the handler is queued whether or not there is a
\* worker
verbMethod_alwaysQueues(verb, path) ==
    /\ mirageServer
    /\ declared < MaxCalls
    /\ declared' = declared + 1
    /\ registered' = Append(registered, [verb |-> verb, path |-> path])
    /\ LET mswHandler ==
               [verb |-> verb,
                path |-> _getFullPath(path, urlPrefix, namespace)]
       IN  /\ handlers' = Append(handlers, mswHandler)
           /\ call' = [op |-> "route", verb |-> verb, path |-> path,
                       handler |-> mswHandler]
    /\ UNCHANGED <<urlPrefix, namespace, mirageServer, msw, passthroughs,
                   passthroughChecks,
                   resolvers, timing>>

\* mutant of verbMethod: the path of the handler is resolved without the
\* namespace
verbMethod_withoutNamespace(verb, path) ==
    /\ mirageServer
    /\ declared < MaxCalls
    /\ declared' = declared + 1
    /\ registered' = Append(registered, [verb |-> verb, path |-> path])
    /\ LET mswHandler ==
               [verb |-> verb,
                path |-> _getFullPath(path, urlPrefix, <<>>)]
       IN  /\ IF msw.defined
                  THEN /\ msw' = [msw EXCEPT !.handlers = Append(@, mswHandler)]
                       /\ UNCHANGED handlers
                  ELSE /\ handlers' = Append(handlers, mswHandler)
                       /\ UNCHANGED msw
           /\ call' = [op |-> "route", verb |-> verb, path |-> path,
                       handler |-> mswHandler]
    /\ UNCHANGED <<urlPrefix, namespace, mirageServer, passthroughs,
                   passthroughChecks,
                   resolvers, timing>>

\* this[verb](path, ...args): a route definition, possible once create has
\* installed the verb methods
verbMethod(verb, path) ==
    /\ mirageServer
    /\ declared < MaxCalls
    /\ declared' = declared + 1
    /\ registered' = Append(registered, [verb |-> verb, path |-> path])
    /\ LET mswHandler ==
               [verb |-> verb,
                path |-> _getFullPath(path, urlPrefix, namespace)]
       IN  /\ IF msw.defined
                  THEN /\ msw' = [msw EXCEPT !.handlers = Append(@, mswHandler)]
                       /\ UNCHANGED handlers
                  ELSE /\ handlers' = Append(handlers, mswHandler)
                       /\ UNCHANGED msw
           /\ call' = [op |-> "route", verb |-> verb, path |-> path,
                       handler |-> mswHandler]
    /\ UNCHANGED <<urlPrefix, namespace, mirageServer, passthroughs,
                   passthroughChecks,
                   resolvers, timing>>

\* MswConfig.passthrough(...args)
Passthrough(args) ==
    /\ declared < MaxCalls
    /\ declared' = declared + 1
    /\ LET done == passthrough(passthroughs, passthroughChecks, args,
                               urlPrefix, namespace)
       IN  /\ passthroughs' = done.registries
           /\ passthroughChecks' = done.checks
           /\ call' = [op |-> "passthrough", args |-> args,
                       thrown |-> done.thrown,
                       before |-> passthroughs,
                       checksBefore |-> passthroughChecks]
    /\ UNCHANGED <<urlPrefix, namespace, mirageServer, handlers, msw, registered,
                   resolvers, timing>>

\* this.namespace = ns, as a routes() function does between its definitions
assignNamespace(ns) ==
    /\ namespace' = ns
    /\ call' = [op |-> "namespace", value |-> ns]
    /\ UNCHANGED <<urlPrefix, mirageServer, handlers, msw, passthroughs,
                   passthroughChecks, registered, declared,
                   resolvers, timing>>

\* MswConfig.start(): a new worker over the queued handlers, started
start ==
    /\ msw' = [defined |-> TRUE, handlers |-> handlers, running |-> TRUE]
    /\ call' = [op |-> "start"]
    /\ UNCHANGED <<urlPrefix, namespace, mirageServer, handlers, passthroughs,
                   passthroughChecks, registered, declared,
                   resolvers, timing>>

\* mutant of shutdown: the registry is emptied when the worker is stopped
shutdown_clearsRegistry ==
    /\ msw' = IF msw.defined THEN [msw EXCEPT !.running = FALSE] ELSE msw
    /\ passthroughs' = emptyMap
    /\ call' = [op |-> "shutdown"]
    /\ UNCHANGED <<urlPrefix, namespace, mirageServer, handlers,
                   passthroughChecks, registered, declared,
                   resolvers, timing>>

\* MswConfig.shutdown(): this.msw?.stop()
shutdown ==
    /\ msw' = IF msw.defined THEN [msw EXCEPT !.running = FALSE] ELSE msw
    /\ call' = [op |-> "shutdown"]
    /\ UNCHANGED <<urlPrefix, namespace, mirageServer, handlers, passthroughs,
                   passthroughChecks, registered, declared,
                   resolvers, timing>>

\* the running worker hands a request no handler matched to the hook
UnhandledRequest(req, shouldLog) ==
    /\ msw.defined
    /\ msw.running
    /\ call' = [op |-> "onUnhandledRequest", req |-> req, shouldLog |-> shouldLog,
                outcome |-> onUnhandledRequest(passthroughs, passthroughChecks, req,
                                               mirageServer, shouldLog, namespace)]
    /\ UNCHANGED <<urlPrefix, namespace, mirageServer, handlers, msw, passthroughs,
                   passthroughChecks, registered, declared,
                   resolvers, timing>>

Next ==
    \/ \E p \in ConfigPrefixes, n \in ConfigNamespaces : create(p, n)
    \/ \E v \in RouteVerbs, p \in RoutePaths : verbMethod(v, p)
    \/ \E args \in PassthroughArgs : Passthrough(args)
    \/ start
    \/ shutdown
    \/ \E req \in Requests, shouldLog \in BOOLEAN : UnhandledRequest(req, shouldLog)

Spec == Init /\ [][Next]_vars

\* ------------------------------------------------------------------------
\* The routes specification: route definitions and passthroughs made while
\* the namespace is reassigned.  The handler specification: the requests
\* the worker hands to the handlers of the routes.
\* ------------------------------------------------------------------------

\* the statuses the route handlers of the mocking server return
ResponseStatuses == {200, 204}

\* the serialized bodies they return
SerializedBodies ==
    {undefined, <<>>, <<"{", "}">>, <<"{", " ", "}">>, <<"[", "1", "]">>, <<"x">>}

\* the Accept headers of the requests
AcceptHeaders ==
    {null, <<"J", "s", "o", "n">>, TextWord, TextWord \o <<",">> \o JSONWord,
     <<"*", "/", "*">>}

\* ------------------------------------------------------------------------
\* The resolver of a route's msw handler: an async function that returns to
\* the event loop at each await, so that other calls run in between
\* ------------------------------------------------------------------------

\* how many resolver calls are followed at a time
MaxInFlight == 2

\* the values assigned to this.timing
Timings == {NoTiming, Timing(0), Timing(50)}

\* if (this.timing)
timingIsSet(t) == t.defined /\ t.ms # 0

\* the sequence without its i-th element
removeAt(seq, i) == SubSeq(seq, 1, i - 1) \o SubSeq(seq, i + 1, Len(seq))

\* the record of a resolver call that has returned or thrown
answered(resolver, status, serializedBody, delayed, build) ==
    [op |-> "request", status |-> status, serializedBody |-> serializedBody,
     accept |-> resolver.accept, invoked |-> resolver.invoked,
     delayed |-> delayed,
     response |-> handleRequest(status, serializedBody, resolver.accept, build)]

\* this.timing = t, as the mocking server does from its configuration
assignTiming(t) ==
    /\ timing' = t
    /\ call' = [op |-> "timing", value |-> t]
    /\ UNCHANGED <<urlPrefix, namespace, mirageServer, handlers, msw, passthroughs,
                   passthroughChecks, registered, declared, resolvers>>

\* the running worker calls the resolver of a route the request matches:
\* the resolver reads the query and the content type, asks for the body of
\* the request and awaits it
resolverStarts(acceptHeader) ==
    /\ msw.defined
    /\ msw.running
    /\ Len(msw.handlers) > 0
    /\ Len(resolvers) < MaxInFlight
    /\ resolvers' = Append(resolvers,
                           [pc |-> "body", accept |-> acceptHeader, invoked |-> 0])
    /\ call' = [op |-> "resolver", awaits |-> "body"]
    /\ UNCHANGED <<urlPrefix, namespace, mirageServer, handlers, msw, passthroughs,
                   passthroughChecks, registered, declared, timing>>

\* mutant of resolverCallsHandler: the route handler is called only for a
\* request whose Accept header names json or text
resolverCallsHandler_supportedOnly(i) ==
    /\ i \in 1..Len(resolvers)
    /\ resolvers[i].pc = "body"
    /\ LET given == resolvers[i].accept
           accept == IF given = null THEN <<>> ELSE toLowerCase(given)
           supported == includes(accept, JSONWord) \/ includes(accept, TextWord)
       IN  resolvers' = [resolvers EXCEPT ![i] =
                            [pc |-> "handler", accept |-> given,
                             invoked |-> IF supported THEN @.invoked + 1
                                         ELSE @.invoked]]
    /\ call' = [op |-> "resolver", awaits |-> "handler"]
    /\ UNCHANGED <<urlPrefix, namespace, mirageServer, handlers, msw, passthroughs,
                   passthroughChecks, registered, declared, timing>>

\* the body of the request has arrived: the resolver copies the headers,
\* builds req, calls handler(req) and awaits its promise
resolverCallsHandler(i) ==
    /\ i \in 1..Len(resolvers)
    /\ resolvers[i].pc = "body"
    /\ resolvers' = [resolvers EXCEPT ![i] =
                        [pc |-> "handler", accept |-> @.accept,
                         invoked |-> @.invoked + 1]]
    /\ call' = [op |-> "resolver", awaits |-> "handler"]
    /\ UNCHANGED <<urlPrefix, namespace, mirageServer, handlers, msw, passthroughs,
                   passthroughChecks, registered, declared, timing>>

\* the promise of the route handler has settled with [status, headers,
\* serializedBody]: with this.timing set the resolver calls delay and awaits
\* it, otherwise it goes on to the Accept header and the response
resolverResumes(i, status, serializedBody, build) ==
    /\ i \in 1..Len(resolvers)
    /\ resolvers[i].pc = "handler"
    /\ IF timingIsSet(timing)
          THEN /\ resolvers' = [resolvers EXCEPT ![i] =
                                   [pc |-> "delay", accept |-> @.accept,
                                    invoked |-> @.invoked, status |-> status,
                                    serializedBody |-> serializedBody,
                                    ms |-> timing.ms]]
               /\ call' = [op |-> "resolver", awaits |-> "delay"]
          ELSE /\ resolvers' = removeAt(resolvers, i)
               /\ call' = answered(resolvers[i], status, serializedBody, FALSE, build)
    /\ UNCHANGED <<urlPrefix, namespace, mirageServer, handlers, msw, passthroughs,
                   passthroughChecks, registered, declared, timing>>

\* the delay is over: the resolver reads the Accept header and returns the
\* response, or throws
resolverResponds(i, build) ==
    /\ i \in 1..Len(resolvers)
    /\ resolvers[i].pc = "delay"
    /\ resolvers' = removeAt(resolvers, i)
    /\ call' = answered(resolvers[i], resolvers[i].status,
                        resolvers[i].serializedBody, TRUE, build)
    /\ UNCHANGED <<urlPrefix, namespace, mirageServer, handlers, msw, passthroughs,
                   passthroughChecks, registered, declared, timing>>

\* the passthrough declarations made between the route definitions
RoutesPassthroughArgs ==
    {<<ArgString(PathA)>>, <<ArgString(UrlGB), ArgArray(<<"get">>)>>}

NextRoutes ==
    \/ \E p \in ConfigPrefixes, n \in ConfigNamespaces : create(p, n)
    \/ \E v \in RouteVerbs, p \in RoutePaths : verbMethod(v, p)
    \/ \E args \in RoutesPassthroughArgs : Passthrough(args)
    \/ \E ns \in AssignedNamespaces : assignNamespace(ns)
    \/ start
    \/ shutdown

SpecRoutes == Init /\ [][NextRoutes]_vars

\* the requests answered while the mocking server leaves this.timing unset:
\* every handler result and Accept header, up to MaxInFlight resolver calls
\* suspended while routes are defined and the worker is started and stopped;
\* the mocking server has no urlPrefix or namespace and its routes are
\* get routes
NextHandler ==
    \/ create(undefined, undefined)
    \/ \E p \in RoutePaths : verbMethod("get", p)
    \/ start
    \/ shutdown
    \/ \E accept \in AcceptHeaders : resolverStarts(accept)
    \/ \E i \in 1..MaxInFlight : resolverCallsHandler(i)
    \/ \E i \in 1..MaxInFlight, status \in ResponseStatuses,
          body \in SerializedBodies, build \in ResponseBuilds :
            resolverResumes(i, status, body, build)

SpecHandler == Init /\ [][NextHandler]_vars

\* the requests answered while this.timing is assigned: two Accept headers
\* and one handler result
DelayedAcceptHeaders == {TextWord, <<"*", "/", "*">>}
DelayedStatuses == {200}
DelayedBodies == {<<"x">>}

NextResolver ==
    \/ create(undefined, undefined)
    \/ \E p \in RoutePaths : verbMethod("get", p)
    \/ start
    \/ shutdown
    \/ \E t \in Timings : assignTiming(t)
    \/ \E accept \in DelayedAcceptHeaders : resolverStarts(accept)
    \/ \E i \in 1..MaxInFlight : resolverCallsHandler(i)
    \/ \E i \in 1..MaxInFlight, status \in DelayedStatuses,
          body \in DelayedBodies, build \in ResponseBuilds :
            resolverResumes(i, status, body, build)
    \/ \E i \in 1..MaxInFlight, build \in ResponseBuilds : resolverResponds(i, build)

SpecResolver == Init /\ [][NextResolver]_vars

\* ------------------------------------------------------------------------
\* The restart specification: one create, then route definitions, start and
\* shutdown in any order
\* ------------------------------------------------------------------------

NextRestart ==
    \/ \E p \in ConfigPrefixes, n \in ConfigNamespaces :
          ~mirageServer /\ create(p, n)
    \/ \E v \in RouteVerbs, p \in RoutePaths : verbMethod(v, p)
    \/ start
    \/ shutdown

SpecRestart == Init /\ [][NextRestart]_vars

\* ------------------------------------------------------------------------
\* The resolver specification: _getFullPath applied to enumerated paths by
\* adapters configured with each prefix and namespace
\* ------------------------------------------------------------------------

PathAlphabet == {"/", "a"}

\* every string over alphabet of length at most n
Strings(alphabet, n) == UNION {[1..k -> alphabet] : k \in 0..n}

\* the paths resolved: every short string over PathAlphabet, and the URLs
\* made of a scheme and a short tail, with and without a leading "/"
ResolvePaths ==
    Strings(PathAlphabet, MaxPathLen)
    \cup {lead \o scheme \o tail :
            lead \in {<<>>, <<"/">>},
            scheme \in {HTTP, HTTPS},
            tail \in Strings(PathAlphabet, MaxTailLen)}

ResolvePrefixes ==
    {undefined, <<>>, <<"p">>, <<"p", "/">>, <<"/", "p">>, <<" ", "p", " ">>,
     UrlG, UrlG \o <<"/">>, UrlG \o <<" ">>, HTTPS \o <<"g">>}

ResolveNamespaces ==
    {undefined, <<>>, <<"/">>, <<"n">>, <<"/", "n">>, <<"n", "/">>,
     <<"/", "n", "/">>, <<"n", "/", "m">>}

InitResolve ==
    /\ urlPrefix \in ResolvePrefixes
    /\ namespace \in ResolveNamespaces
    /\ mirageServer = FALSE
    /\ handlers = <<>>
    /\ msw = NoWorker
    /\ passthroughs = emptyMap
    /\ passthroughChecks = <<>>
    /\ registered = <<>>
    /\ declared = 0
    /\ resolvers = <<>>
    /\ timing = NoTiming
    /\ call = NoCall

\* this._getFullPath(path)
Resolve(path) ==
    /\ call' = [op |-> "_getFullPath", path |-> path,
                result |-> _getFullPath(path, urlPrefix, namespace)]
    /\ UNCHANGED <<urlPrefix, namespace, mirageServer, handlers, msw, passthroughs,
                   passthroughChecks, registered, declared,
                   resolvers, timing>>

NextResolve == \E path \in ResolvePaths : Resolve(path)

SpecResolve == InitResolve /\ [][NextResolve]_vars

\* the path with one leading "/" stripped
Stripped(path) == IF Len(path) > 0 /\ path[1] = "/" THEN Tail(path) ELSE path

\* the string begins with http:// or https://
IsAbsoluteURL(s) ==
    \/ Len(s) >= 7 /\ \A i \in 1..7 : s[i] = HTTP[i]
    \/ Len(s) >= 8 /\ \A i \in 1..8 : s[i] = HTTPS[i]

\* s with every run of consecutive slashes collapsed to one: the characters
\* of s that are not a "/" following a "/"
KeptIndexes(s) == {i \in 1..Len(s) : ~(s[i] = "/" /\ i > 1 /\ s[i - 1] = "/")}
RunsCollapsed(s) ==
    LET kept == KeptIndexes(s)
        nth(k) == CHOOSE i \in kept : Cardinality({j \in kept : j < i}) = k - 1
    IN  [k \in 1..Cardinality(kept) |-> s[nth(k)]]

Resolved == call.op = "_getFullPath"

\* C9: a path that, after one leading "/" is stripped, begins with http://
\* or https:// is resolved to that stripped path unchanged, whatever prefix
\* and namespace are configured.
C9_AbsoluteUnchanged ==
    (Resolved /\ IsAbsoluteURL(Stripped(call.path)))
        => call.result = Stripped(call.path)

\* C9 witness: an absolute URL given with a leading "/" was resolved by an
\* adapter that has both a prefix and a namespace.
C9_Witness ==
    /\ Resolved
    /\ IsAbsoluteURL(Stripped(call.path))
    /\ call.path[1] = "/"
    /\ Truthy(urlPrefix)
    /\ Truthy(namespace)

\* C10 as stated: with empty prefix and empty namespace every path p is
\* resolved to "/" + p with runs of slashes collapsed.
C10_AllPaths ==
    (Resolved /\ ~Truthy(urlPrefix) /\ ~Truthy(namespace))
        => call.result = RunsCollapsed(<<"/">> \o call.path)

\* C10 amended: with empty prefix and empty namespace every path p that does
\* not begin, after one leading "/" is stripped, with http:// or https://
\* is resolved to "/" + p with runs of slashes collapsed.
C10_RelativePaths ==
    (Resolved /\ ~Truthy(urlPrefix) /\ ~Truthy(namespace)
        /\ ~IsAbsoluteURL(Stripped(call.path)))
        => call.result = RunsCollapsed(<<"/">> \o call.path)

\* C10 witness: a path with a run of slashes inside was resolved with empty
\* prefix and namespace.
C10_Witness ==
    /\ Resolved
    /\ urlPrefix = <<>>
    /\ namespace = <<>>
    /\ call.path = <<"a", "/", "/">>
    /\ call.result = <<"/", "a", "/">>

\* ------------------------------------------------------------------------
\* The registry specification: add and lookups on one PassthroughRegistry
\* ------------------------------------------------------------------------

HostH == <<"h">>
HostG == <<"g">>
HostHPort == <<"h", ":", "8">>
PathB == <<"/", "b">>
NotAUrl == <<"n", "o", "t", " ", "a", " ", "u", "r", "l">>

\* the URLs given to add: two hosts, two paths, and three strings that are
\* no absolute URL
AddUrls ==
    {HTTP \o h \o p : h \in {HostH, HostG}, p \in {PathA, PathB}}
    \cup {NotAUrl, PathA, HTTP}

\* the verbs arguments given to add
AddVerbs ==
    {VerbsUndefined, VerbsString("get"), VerbsArray(<<>>), VerbsArray(<<"get">>),
     VerbsArray(<<"GET", "put">>), VerbsArray(<<"Post", "trace">>)}

\* the lookups made
LookupHosts == {HostH, HostG}
LookupVerbs == Range(allVerbs) \cup {"TRACE", "get"}
LookupPaths == {PathA, PathB}

\* registry.add(url, verbs)
Add(url, verbs) ==
    /\ declared < MaxAdds
    /\ declared' = declared + 1
    /\ LET done == add(passthroughs, url, verbs)
       IN  /\ passthroughs' = done.registries
           /\ call' = [op |-> "add", url |-> url, verbs |-> verbs,
                       thrown |-> done.thrown, before |-> passthroughs]
    /\ UNCHANGED <<urlPrefix, namespace, mirageServer, handlers, msw,
                   passthroughChecks, registered,
                   resolvers, timing>>

\* registry.retrieve(host)?.get(verb)?.recognize(path)
Lookup(host, verb, path) ==
    /\ call' = [op |-> "lookup", host |-> host, verb |-> verb, path |-> path,
                found |-> retrieve(passthroughs, host).found,
                match |-> lookup(passthroughs, host, verb, path)]
    /\ UNCHANGED <<urlPrefix, namespace, mirageServer, handlers, msw, passthroughs,
                   passthroughChecks, registered, declared,
                   resolvers, timing>>

NextRegistry ==
    \/ \E url \in AddUrls, verbs \in AddVerbs : Add(url, verbs)
    \/ \E h \in LookupHosts, v \in LookupVerbs, p \in LookupPaths : Lookup(h, v, p)

SpecRegistry == Init /\ [][NextRegistry]_vars

\* The hosts specification: add and lookup over a host with and without a
\* port and a second host
PortUrls == {HTTP \o h \o PathA : h \in {HostH, HostHPort, HostG}}
PortVerbs ==
    {VerbsArray(<<>>), VerbsArray(<<"get">>), VerbsArray(<<"Post", "trace">>)}
PortHosts == {HostH, HostHPort, HostG}
PortLookupVerbs == {"GET", "POST", "TRACE", "get"}
PortLookupPaths == {PathA, PathB}

NextHosts ==
    \/ \E url \in PortUrls, verbs \in PortVerbs : Add(url, verbs)
    \/ \E h \in PortHosts, v \in PortLookupVerbs, p \in PortLookupPaths :
          Lookup(h, v, p)

SpecHosts == Init /\ [][NextHosts]_vars

\* ------------------------------------------------------------------------
\* Properties of PassthroughRegistry.add (registry specification)
\* ------------------------------------------------------------------------

SevenVerbs == {"GET", "PUT", "POST", "DELETE", "PATCH", "HEAD", "OPTIONS"}

\* the last call was add with a URL that parses
AddedUrl == call.op = "add" /\ parseURL(call.url).ok

AddedHost == parseURL(call.url).host
AddedPathname == parseURL(call.url).pathname

\* the last call was add for a host that had no entry
AddedNewHost == AddedUrl /\ AddedHost \notin DOMAIN call.before

\* the last call was add for a host that had an entry
AddedKnownHost == AddedUrl /\ AddedHost \in DOMAIN call.before

\* the verbs argument is a non-empty list of HTTP verbs in any letter case
ListsVerbs(verbs) ==
    /\ verbs.kind = "array"
    /\ Len(verbs.items) > 0
    /\ \A i \in 1..Len(verbs.items) : toUpperCase(verbs.items[i]) \in SevenVerbs

\* the verbs argument is absent or an empty list
NoVerbs(verbs) ==
    \/ verbs.kind = "undefined"
    \/ verbs.kind = "array" /\ Len(verbs.items) = 0

\* C2: add for a host without entry and a non-empty verb list creates
\* matchers, each holding only the URL's pathname, for exactly the listed
\* verbs upper-cased and for no other verb.
C2_NewHostListedVerbs ==
    (AddedNewHost /\ ListsVerbs(call.verbs)) =>
        /\ call.thrown = "none"
        /\ AddedHost \in DOMAIN passthroughs
        /\ DOMAIN passthroughs[AddedHost] =
               {toUpperCase(call.verbs.items[i]) : i \in 1..Len(call.verbs.items)}
        /\ \A v \in DOMAIN passthroughs[AddedHost] :
               /\ passthroughs[AddedHost][v] = {AddedPathname}
               /\ lookup(passthroughs, AddedHost, v, AddedPathname)

\* C2 witness: add("http://h/a", ["GET", "put"]) on a registry without host
\* h left GET and PUT matching /a and no POST matcher.
C2_Witness ==
    /\ AddedNewHost
    /\ call.url = HTTP \o HostH \o PathA
    /\ call.verbs = VerbsArray(<<"GET", "put">>)
    /\ lookup(passthroughs, HostH, "GET", PathA)
    /\ lookup(passthroughs, HostH, "PUT", PathA)
    /\ "POST" \notin DOMAIN passthroughs[HostH]

\* C3 as stated: add for a host without entry, with verbs absent, empty or
\* not a list, creates matchers holding the URL's pathname for all seven
\* verbs.
C3_NewHostAllVerbs ==
    (AddedNewHost /\ (NoVerbs(call.verbs) \/ call.verbs.kind # "array")) =>
        /\ call.thrown = "none"
        /\ AddedHost \in DOMAIN passthroughs
        /\ DOMAIN passthroughs[AddedHost] = SevenVerbs
        /\ \A v \in SevenVerbs : passthroughs[AddedHost][v] = {AddedPathname}

\* the patterns of a verb of a host before the last call
PatternsBefore(host, v) ==
    IF host \in DOMAIN call.before /\ v \in DOMAIN call.before[host]
        THEN call.before[host][v] ELSE {}

\* C4: add for a host with an entry, with verbs absent or empty, adds the
\* pathname to every one of the seven verbs: a verb with a matcher keeps
\* its patterns and gains the new one, a verb without gets a matcher
\* holding only the new pathname.
C4_KnownHostAllVerbs ==
    (AddedKnownHost /\ NoVerbs(call.verbs)) =>
        /\ call.thrown = "none"
        /\ \A v \in SevenVerbs :
               /\ v \in DOMAIN passthroughs[AddedHost]
               /\ passthroughs[AddedHost][v] =
                      PatternsBefore(AddedHost, v) \cup {AddedPathname}
               /\ \A path \in LookupPaths :
                      lookup(call.before, AddedHost, v, path)
                          => lookup(passthroughs, AddedHost, v, path)

\* C4 witness: host h had a GET matcher for /a only, then
\* add("http://h/b", undefined): GET matches /a and /b, POST matches /b only.
C4_Witness ==
    /\ AddedKnownHost
    /\ call.url = HTTP \o HostH \o PathB
    /\ call.verbs = VerbsUndefined
    /\ DOMAIN call.before[HostH] = {"GET"}
    /\ call.before[HostH]["GET"] = {PathA}
    /\ lookup(passthroughs, HostH, "GET", PathA)
    /\ lookup(passthroughs, HostH, "GET", PathB)
    /\ lookup(passthroughs, HostH, "POST", PathB)
    /\ ~lookup(passthroughs, HostH, "POST", PathA)

\* C6: add with a URL that cannot be parsed as an absolute URL throws, and
\* the registry is exactly as before the call.
C6_MalformedUrlThrows ==
    (call.op = "add" /\ ~parseURL(call.url).ok) =>
        /\ call.thrown = "TypeError: Invalid URL"
        /\ passthroughs = call.before

\* C6 witness: add("not a url", ["get"]) was called on a registry that had
\* entries.
C6_Witness ==
    /\ call.op = "add"
    /\ call.url = NotAUrl
    /\ call.verbs = VerbsArray(<<"get">>)
    /\ call.before # emptyMap
    /\ call.thrown # "none"

\* ------------------------------------------------------------------------
\* Properties of the adapter (adapter specification)
\* ------------------------------------------------------------------------

\* the last call was the unhandled-request hook
Hooked == call.op = "onUnhandledRequest"

\* some registered predicate returns true for the request
SomeCheckTrue(req) ==
    \E i \in 1..Len(passthroughChecks) : passthroughChecks[i] \in req.trueOf

\* the entry of the request's host has a matcher under the request's
\* upper-cased verb that matches the pathname of the request's URL
RegistryMatches(req) ==
    LET host == parseURL(req.url).host
        pathname == parseURL(req.url).pathname
        verb == toUpperCase(req.method)
    IN  /\ host \in DOMAIN passthroughs
        /\ verb \in DOMAIN passthroughs[host]
        /\ \E route \in passthroughs[host][verb] : routeMatches(route, pathname)

\* C1: a request reaching the unhandled-request hook is passed through if
\* and only if a registered predicate returns true for it or the registry
\* entry of its host has a matcher under its upper-cased verb that matches
\* its pathname.
C1_PassthroughDecision ==
    Hooked =>
        (call.outcome.passthrough
            <=> (SomeCheckTrue(call.req) \/ RegistryMatches(call.req)))

\* C1 witness: a request with the method "post" was passed through, and
\* another request to the same host was not.
C1_Witness ==
    /\ Hooked
    /\ call.req.method = "post"
    /\ call.outcome.passthrough
    /\ ~RegistryMatches(Request("GET", HostG, PathA, {}))

\* every match of a lookup in regs is a match in regs2, and every host
\* entry, verb matcher and pattern of regs is in regs2
GrowsTo(regs, regs2) ==
    \/ regs2 = regs
    \/ /\ \A h \in DOMAIN regs :
              /\ h \in DOMAIN regs2
              /\ \A v \in DOMAIN regs[h] :
                     /\ v \in DOMAIN regs2[h]
                     /\ regs[h][v] \subseteq regs2[h][v]
       /\ \A h \in RequestHosts, v \in SevenVerbs \cup {"TRACE"}, p \in RequestPaths :
              lookup(regs, h, v, p) => lookup(regs2, h, v, p)

\* C5: the registry only grows: no call removes a host entry, a verb
\* matcher or a pattern, and a lookup that matches keeps matching.
C5_RegistryGrows == [][GrowsTo(passthroughs, passthroughs')]_vars

\* C5 witness: a passthrough call added to a registry that had entries.
C5_Witness ==
    /\ call.op = "passthrough"
    /\ call.before # emptyMap
    /\ passthroughs # call.before
    /\ mirageServer

\* the canonical path is registered under every verb of vs
RegisteredFor(fullPath, vs) ==
    LET u == parseURL(fullPath)
    IN  /\ u.ok
        /\ u.host \in DOMAIN passthroughs
        /\ \A v \in vs :
               /\ v \in DOMAIN passthroughs[u.host]
               /\ u.pathname \in passthroughs[u.host][v]

\* C7 as stated: passthrough() without arguments, on an adapter configured
\* by create with any urlPrefix and namespace, registers the canonical forms
\* of '/**' and '/' for all seven verbs and completes without error.
C7_DefaultPassthrough ==
    (call.op = "passthrough" /\ call.args = <<>> /\ mirageServer) =>
        /\ call.thrown = "none"
        /\ \A i \in 1..Len(defaultPassthroughPaths) :
               RegisteredFor(_getFullPath(defaultPassthroughPaths[i],
                                          urlPrefix, namespace),
                             SevenVerbs)

\* the path strings of a call's arguments and the verbs of its trailing list
StringsOf(args) ==
    LET given == SelectSeq(args, LAMBDA arg : arg.kind = "string")
    IN  [i \in 1..Len(given) |-> given[i].value]
HasVerbList(args) == Len(args) > 0 /\ args[Len(args)].kind = "array"
VerbsOf(args) ==
    IF HasVerbList(args)
        THEN {toUpperCase(args[Len(args)].items[i]) :
                  i \in 1..Len(args[Len(args)].items)}
        ELSE SevenVerbs

\* C8 as stated: passthrough(p1, ..., pn, verbs), on an adapter configured
\* by create, registers the canonical path of every pi for the verbs of the
\* list, or for all seven verbs when there is no list.
C8_PathsRegistered ==
    (call.op = "passthrough" /\ Len(StringsOf(call.args)) > 0 /\ mirageServer) =>
        /\ call.thrown = "none"
        /\ \A i \in 1..Len(StringsOf(call.args)) :
               RegisteredFor(_getFullPath(StringsOf(call.args)[i],
                                          urlPrefix, namespace),
                             VerbsOf(call.args) \cap SevenVerbs)

\* ------------------------------------------------------------------------
\* Resolution with a namespace (checked under SpecResolve)
\* ------------------------------------------------------------------------

\* s without its leading and trailing spaces
Trimmed(s) ==
    LET inked == {i \in 1..Len(s) : s[i] # " "}
    IN  IF inked = {} THEN <<>>
        ELSE SubSeq(s, CHOOSE i \in inked : \A j \in inked : i <= j,
                       CHOOSE i \in inked : \A j \in inked : j <= i)

\* the namespace without one leading and one trailing "/"
BareNamespace(ns) ==
    LET noLead == IF Len(ns) > 0 /\ ns[1] = "/" THEN Tail(ns) ELSE ns
    IN  IF Len(noLead) > 0 /\ noLead[Len(noLead)] = "/"
            THEN SubSeq(noLead, 1, Len(noLead) - 1)
            ELSE noLead

\* the namespace has one of the shapes ns, /ns, ns/, /ns/ of a non-empty ns
\* that neither begins nor ends with "/"
IsNamespaceShape(ns) ==
    /\ Truthy(ns)
    /\ BareNamespace(ns) # <<>>
    /\ BareNamespace(ns)[1] # "/"
    /\ BareNamespace(ns)[Len(BareNamespace(ns))] # "/"

\* C11 as stated: with a non-empty prefix that is not an absolute URL and a
\* relative path p, each of the shapes ns, /ns, ns/, /ns/ of the namespace
\* resolves to "/" + prefix + "/" + ns + "/" + p with runs of slashes
\* collapsed.
C11_PrefixAsGiven ==
    (Resolved /\ Truthy(urlPrefix) /\ ~IsAbsoluteURL(urlPrefix)
        /\ ~IsAbsoluteURL(Stripped(call.path)) /\ IsNamespaceShape(namespace))
        => call.result =
              RunsCollapsed(<<"/">> \o urlPrefix \o <<"/">>
                            \o BareNamespace(namespace) \o <<"/">> \o call.path)

\* C11 amended: with a prefix that, once its surrounding whitespace is
\* trimmed, is non-empty and not an absolute URL, and a relative path p, each
\* of the shapes ns, /ns, ns/, /ns/ of the namespace resolves to
\* "/" + trimmed prefix + "/" + ns + "/" + p with runs of slashes collapsed.
C11_PrefixTrimmed ==
    (Resolved /\ Truthy(urlPrefix) /\ Trimmed(urlPrefix) # <<>>
        /\ ~IsAbsoluteURL(Trimmed(urlPrefix))
        /\ ~IsAbsoluteURL(Stripped(call.path)) /\ IsNamespaceShape(namespace))
        => call.result =
              RunsCollapsed(<<"/">> \o Trimmed(urlPrefix) \o <<"/">>
                            \o BareNamespace(namespace) \o <<"/">> \o call.path)

\* C11 witness: a relative path of two segments was resolved with a prefix
\* that ends in "/" and a namespace with a slash at both ends.
C11_Witness ==
    /\ Resolved
    /\ urlPrefix = <<"p", "/">>
    /\ namespace = <<"/", "n", "/">>
    /\ call.path = <<"a", "/", "a">>
    /\ call.result = <<"/", "p", "/", "n", "/", "a", "/", "a">>

\* C12: with an empty prefix and a relative path p, each of the shapes ns,
\* /ns, ns/, /ns/ of a non-empty namespace resolves to "/" + ns + "/" + p
\* with runs of slashes collapsed, and the namespace "/" resolves p as the
\* empty namespace does.
C12_NamespaceOnly ==
    (Resolved /\ ~Truthy(urlPrefix) /\ ~IsAbsoluteURL(Stripped(call.path)))
        => /\ IsNamespaceShape(namespace)
                => call.result =
                      RunsCollapsed(<<"/">> \o BareNamespace(namespace)
                                    \o <<"/">> \o call.path)
           /\ namespace = <<"/">>
                => /\ call.result = _getFullPath(call.path, urlPrefix, <<>>)
                   /\ call.result = RunsCollapsed(<<"/">> \o call.path)

\* C12 witness: a relative path was resolved without a prefix and with a
\* namespace that ends in "/".
C12_Witness ==
    /\ Resolved
    /\ urlPrefix = <<>>
    /\ namespace = <<"n", "/">>
    /\ call.path = <<"a">>
    /\ call.result = <<"/", "n", "/", "a">>

\* ------------------------------------------------------------------------
\* The warning of the unhandled-request hook (checked under Spec)
\* ------------------------------------------------------------------------

\* the request of the hook goes to another host than the page's own
OtherHost == parseURL(call.req.url).host # locationHost

\* the warning names the verb and the URL of the request, and says that no
\* namespace is defined when the namespace is empty
WarningTells ==
    /\ call.outcome.warning.verb = toUpperCase(call.req.method)
    /\ call.outcome.warning.href = parseURL(call.req.url).href
    /\ namespace = <<>>
          => call.outcome.warning.namespaceError
                = <<"There is no existing namespace defined.">>
    /\ namespace # <<>>
          => call.outcome.warning.namespaceError
                # <<"There is no existing namespace defined.">>

\* C13 as stated: for every request of the hook that is not passed through,
\* a warning naming the verb and URL is emitted if the request's host
\* differs from the page's own host, and no warning is emitted if the hosts
\* are equal.
C13_WarningByHost ==
    (Hooked /\ ~call.outcome.passthrough)
        => /\ OtherHost => (call.outcome.warned /\ WarningTells)
           /\ ~OtherHost => ~call.outcome.warned

\* C13 amended: for every request of the hook that is not passed through, a
\* warning naming the verb and URL is emitted if the request's host differs
\* from the page's own host and the mocking server's shouldLog() is true;
\* no warning is emitted if the hosts are equal or shouldLog() is not true.
C13_WarningByHostAndLogging ==
    (Hooked /\ ~call.outcome.passthrough)
        => /\ (OtherHost /\ mirageServer /\ call.shouldLog)
                => (call.outcome.warned /\ WarningTells)
           /\ ~(OtherHost /\ mirageServer /\ call.shouldLog)
                => ~call.outcome.warned

\* C13 witness: a request to another host that no passthrough covers was
\* warned about by an adapter with an empty namespace.
C13_Witness ==
    /\ Hooked
    /\ ~call.outcome.passthrough
    /\ OtherHost
    /\ call.outcome.warned
    /\ namespace = <<>>
    /\ call.outcome.warning.namespaceError
          = <<"There is no existing namespace defined.">>

\* ------------------------------------------------------------------------
\* Definitions and the namespace (checked under SpecRoutes)
\* ------------------------------------------------------------------------

\* the handlers registered with the interception engine: those of the
\* worker once there is one, the queued ones before
EngineHandlers == IF msw.defined THEN msw.handlers ELSE handlers

\* the canonical paths of the string arguments of a passthrough call are
\* patterns of regs, under the host of each
CanonicalPathsIn(regs, args, thisUrlPrefix, thisNamespace) ==
    \A i \in 1..Len(args) :
        args[i].kind = "string"
            => LET fullPath == parseURL(_getFullPath(args[i].value, thisUrlPrefix,
                                                     thisNamespace))
               IN  /\ fullPath.ok
                   /\ fullPath.host \in DOMAIN regs
                   /\ \E v \in DOMAIN regs[fullPath.host] :
                          fullPath.pathname \in regs[fullPath.host][v]

\* C14: the handler of a route definition gets the canonical path resolved
\* from the urlPrefix and namespace in force when the definition is made,
\* a passthrough call that completes registers the canonical paths resolved
\* from them, and assigning the namespace changes neither the handlers
\* already registered nor the registry.
C14_PathsFixedAtDefinition ==
    [][/\ call'.op = "route"
            => call'.handler.path = _getFullPath(call'.path, urlPrefix, namespace)
       /\ (call'.op = "passthrough" /\ call'.thrown = "none")
            => CanonicalPathsIn(passthroughs', call'.args, urlPrefix, namespace)
       /\ call'.op = "namespace"
            => /\ handlers' = handlers
               /\ msw' = msw
               /\ passthroughs' = passthroughs
               /\ urlPrefix' = urlPrefix]_vars

\* C14 witness: the same path was defined as a route before and after the
\* namespace was assigned, and the two handlers have different paths.
C14_Witness ==
    /\ call.op = "route"
    /\ Len(EngineHandlers) = 2
    /\ registered[1].path = registered[2].path
    /\ EngineHandlers[1].path # EngineHandlers[2].path
    /\ EngineHandlers[2].path = _getFullPath(call.path, urlPrefix, <<"m">>)

\* ------------------------------------------------------------------------
\* The responses of the route handlers (checked under SpecHandler)
\* ------------------------------------------------------------------------

Intercepted == call.op = "request"

\* the two characters are the same letter in either case
SameLetter(c, d) ==
    \/ c = d
    \/ \E k \in 1..26 : {c, d} = {UpperCaseLetters[k], LowerCaseLetters[k]}

\* the Accept header of the request is present and, lower-cased, contains
\* the word
AcceptContains(word) ==
    /\ call.accept # null
    /\ \E i \in 0..(Len(call.accept) - Len(word)) :
          \A k \in 1..Len(word) : SameLetter(call.accept[i + k], word[k])

\* a response was emitted
Emitted == call.response.thrown = "none"

\* C15: when the route handler returns status 204 and the Accept header
\* contains json or text, the response emitted has an empty body, whatever
\* serialized body the route handler returned.
C15_NoContentEmptyBody ==
    (Intercepted /\ call.status = 204
        /\ (AcceptContains(JSONWord) \/ AcceptContains(TextWord)))
        => (Emitted /\ call.response.body = EmptyBody)

\* C16: the response is emitted in JSON form when the lower-cased Accept
\* header contains json, in text form when it contains text and not json,
\* and for any other Accept value or a missing header the request fails
\* with an error and no response is emitted.
C16_AcceptDecidesForm ==
    Intercepted
        => /\ AcceptContains(JSONWord)
                => (Emitted /\ call.response.form = "json")
           /\ (AcceptContains(TextWord) /\ ~AcceptContains(JSONWord))
                => (Emitted /\ call.response.form = "text")
           /\ (~AcceptContains(TextWord) /\ ~AcceptContains(JSONWord))
                => ~Emitted

\* C17: a route definition verb(path, ...) calls registerRouteHandler once,
\* with the verb and the path as given, and registers one handler under
\* the verb and the canonical path of the path: appended to the queued
\* handlers when no worker has been started, handed to the worker
\* otherwise.
C17_OneHandlerPerDefinition ==
    [][call'.op = "route"
        => LET mswHandler ==
                   [verb |-> call'.verb,
                    path |-> _getFullPath(call'.path, urlPrefix, namespace)]
           IN  /\ registered'
                     = Append(registered, [verb |-> call'.verb, path |-> call'.path])
               /\ ~msw.defined
                     => /\ handlers' = Append(handlers, mswHandler)
                        /\ msw' = msw
               /\ msw.defined
                     => /\ msw'.handlers = Append(msw.handlers, mswHandler)
                        /\ msw'.running = msw.running
                        /\ handlers' = handlers]_vars

\* C17 witness: one route was defined before the worker was started and one
\* after; the first is queued and the running worker has both.
C17_Witness ==
    /\ call.op = "route"
    /\ msw.defined
    /\ msw.running
    /\ Len(registered) = 2
    /\ Len(handlers) = 1
    /\ Len(msw.handlers) = 2
    /\ msw.handlers[2] = call.handler

\* ------------------------------------------------------------------------
\* The registry once the worker is started (checked under Spec)
\* ------------------------------------------------------------------------

\* C18 as stated: once start() has been called, no operation changes any
\* host entry, verb matcher or pattern of the registry.
C18_ReadOnlyAfterStart ==
    [][msw.defined => passthroughs' = passthroughs]_vars

\* C18 amended: once start() has been called, the registry is changed by
\* passthrough calls only, which add to it as before; create, route
\* definitions, start, shutdown and the unhandled-request hook leave every
\* host entry, verb matcher and pattern as it is.
C18_OnlyPassthroughAfterStart ==
    [][msw.defined
        => \/ passthroughs' = passthroughs
           \/ /\ call'.op = "passthrough"
              /\ GrowsTo(passthroughs, passthroughs')]_vars

\* C18 witness: a passthrough declared while the worker was running added
\* to the registry.
C18_Witness ==
    /\ call.op = "passthrough"
    /\ call.thrown = "none"
    /\ msw.defined
    /\ msw.running
    /\ call.before # passthroughs
    /\ GrowsTo(call.before, passthroughs)

\* C19: a predicate function passed to passthrough(...) is in the list of
\* passthrough predicates once the call returns, and a request of the hook
\* for which a predicate of the list returns true is passed through.
C19_PredicateAdded ==
    /\ call.op = "passthrough"
          => \A i \in 1..Len(call.args) :
                call.args[i].kind = "function"
                    => \E k \in 1..Len(passthroughChecks) :
                          passthroughChecks[k] = call.args[i].value
    /\ (Hooked /\ SomeCheckTrue(call.req)) => call.outcome.passthrough

\* ------------------------------------------------------------------------
\* Isolation of the registry entries (checked under SpecRegistry)
\* ------------------------------------------------------------------------

\* host name and port as written in an http:// URL: the characters between
\* the scheme and the next "/"
WrittenHost(url) ==
    LET after == SubSeq(url, Len(HTTP) + 1, Len(url))
        slashes == {i \in 1..Len(after) : after[i] = "/"}
    IN  IF slashes = {} THEN after
        ELSE SubSeq(after, 1, (CHOOSE i \in slashes : \A j \in slashes : i <= j) - 1)

\* the verbs an add with this verbs argument registers the pattern for
VerbsAddressed(verbs) ==
    IF verbs.kind = "array" /\ Len(verbs.items) > 0
        THEN {toUpperCase(verbs.items[i]) : i \in 1..Len(verbs.items)}
        ELSE SevenVerbs

\* C20: an add for host h (host name with port) and its verbs changes the
\* outcome of no lookup for another host or for h with another verb; a
\* lookup for a host without entry finds nothing and fails with no error,
\* and a lookup leaves the registry as it is.
C20_IsolatedLookups ==
    [][/\ (call'.op = "add" /\ call'.thrown = "none")
            => \A h \in PortHosts, v \in PortLookupVerbs, p \in PortLookupPaths :
                  (h # WrittenHost(call'.url) \/ v \notin VerbsAddressed(call'.verbs))
                      => (lookup(passthroughs', h, v, p)
                            <=> lookup(passthroughs, h, v, p))
       /\ (call'.op = "add" /\ call'.thrown # "none")
            => passthroughs' = passthroughs
       /\ call'.op = "lookup"
            => /\ passthroughs' = passthroughs
               /\ call'.host \notin DOMAIN passthroughs
                     => (~call'.found /\ ~call'.match)]_vars

\* C20 witness: the path registered for host h with port 8 and the verb GET
\* is found there, and not for host h without port nor under POST.
C20_Witness ==
    /\ call.op = "lookup"
    /\ call.host = HostHPort
    /\ call.verb = "GET"
    /\ call.match
    /\ ~lookup(passthroughs, HostH, "GET", call.path)
    /\ HostH \in DOMAIN passthroughs
    /\ ~lookup(passthroughs, HostHPort, "POST", call.path)
    /\ ~lookup(passthroughs, HostG, "GET", call.path)

\* ------------------------------------------------------------------------
\* Resolution with an absolute prefix (checked under SpecResolve)
\* ------------------------------------------------------------------------

\* s with one "/" appended unless it ends in one
SlashEnded(s) == IF Len(s) > 0 /\ s[Len(s)] = "/" THEN s ELSE s \o <<"/">>

\* the configured namespace without its boundary slashes, empty when no
\* namespace is configured
BareOrNone == IF Truthy(namespace) THEN BareNamespace(namespace) ELSE <<>>

\* the result starts with exactly one "/" and has no two slashes in a row
OneLeadingSlashNoRuns ==
    /\ Len(call.result) >= 1
    /\ call.result[1] = "/"
    /\ \A i \in 1..(Len(call.result) - 1) :
          ~(call.result[i] = "/" /\ call.result[i + 1] = "/")

\* C21 as stated: with a urlPrefix that begins with http:// or https:// and
\* a relative path p the result is the prefix with one trailing "/" ensured
\* + bare namespace + "/" + p, with no leading "/" and no run of slashes
\* collapsed; every other result that is not an absolute URL starts with
\* exactly one "/" and has no two consecutive slashes.
C21_PrefixNamespaceSlashPath ==
    /\ (Resolved /\ Truthy(urlPrefix) /\ IsAbsoluteURL(urlPrefix)
            /\ ~IsAbsoluteURL(Stripped(call.path)))
          => call.result
                = SlashEnded(urlPrefix) \o BareOrNone \o <<"/">> \o call.path
    /\ (Resolved /\ ~IsAbsoluteURL(call.result)) => OneLeadingSlashNoRuns

\* C21 amended: with a urlPrefix that, trimmed of surrounding whitespace,
\* begins with http:// or https:// and a relative path p the result is the
\* trimmed prefix with one trailing "/" ensured + bare namespace + "/"
\* unless the result so far ends in one + p without its one leading "/",
\* with no leading "/" added and no run of slashes collapsed; every other
\* result that is not an absolute URL starts with exactly one "/" and has
\* no two consecutive slashes.
C21_AbsolutePrefixKept ==
    /\ (Resolved /\ Truthy(urlPrefix) /\ IsAbsoluteURL(Trimmed(urlPrefix))
            /\ ~IsAbsoluteURL(Stripped(call.path)))
          => call.result
                = SlashEnded(SlashEnded(Trimmed(urlPrefix)) \o BareOrNone)
                    \o Stripped(call.path)
    /\ (Resolved /\ ~IsAbsoluteURL(call.result)) => OneLeadingSlashNoRuns

\* C21 witness: a path that ends in two slashes was resolved with an
\* absolute prefix and a namespace, and the result keeps the two slashes.
C21_Witness ==
    /\ Resolved
    /\ urlPrefix = UrlG
    /\ namespace = <<"/", "n", "/">>
    /\ call.path = <<"a", "/", "/">>
    /\ call.result = UrlG \o <<"/", "n", "/", "a", "/", "/">>

\* ------------------------------------------------------------------------
\* Routes across restarts of the worker (checked under SpecRestart)
\* ------------------------------------------------------------------------

\* the handler of the i-th route definition is among the worker's handlers
RouteInWorker(i) ==
    \E k \in 1..Len(msw.handlers) :
        /\ msw.handlers[k].verb = registered[i].verb
        /\ msw.handlers[k].path
              = _getFullPath(registered[i].path, urlPrefix, namespace)

\* C22: after one create and any sequence of route definitions, start()
\* and shutdown(), every route defined since the create is registered with
\* the worker the most recent start() created.
C22_RoutesSurviveRestart ==
    msw.defined => \A i \in 1..Len(registered) : RouteInWorker(i)

\* ------------------------------------------------------------------------
\* The verb keys of the registry (checked under SpecRegistry)
\* ------------------------------------------------------------------------

\* C23: in every reachable state each verb key of each host entry is one of
\* GET, PUT, POST, DELETE, PATCH, HEAD, OPTIONS, whatever verb strings were
\* passed to add.
C23_VerbKeysAreHTTPVerbs ==
    \A h \in DOMAIN passthroughs : DOMAIN passthroughs[h] \subseteq SevenVerbs

\* ------------------------------------------------------------------------
\* The path context across create (checked under SpecRoutes)
\* ------------------------------------------------------------------------

NonEmptyString(v) == v # undefined /\ v # <<>>

\* the value the claim gives a path-context field after config
KeptOrConfigured(previous, configured) ==
    IF NonEmptyString(previous) THEN previous
    ELSE IF NonEmptyString(configured) THEN configured
    ELSE <<>>

\* C24: a create(server, cfg), which runs config(cfg), leaves urlPrefix and
\* namespace at their previous value when that is non-empty, and otherwise
\* at cfg's value, or '' when cfg has none: a non-empty path context is
\* never overwritten by a later create.
C24_ConfigKeepsNonEmpty ==
    [][ call'.op = "create" =>
          /\ urlPrefix' = KeptOrConfigured(urlPrefix, call'.urlPrefix)
          /\ namespace' = KeptOrConfigured(namespace, call'.namespace) ]_vars

\* a create whose configuration names the namespace 'n' has left the
\* namespace 'm' set earlier, and the prefix came from a configuration
C24_Witness ==
    /\ call.op = "create"
    /\ call.namespace = <<"n">>
    /\ namespace = <<"m">>
    /\ urlPrefix = UrlG

\* ------------------------------------------------------------------------
\* A passthrough declaration that fails part-way (checked under Spec)
\* ------------------------------------------------------------------------

\* the path strings of a passthrough call, in argument order
PathStrings(args) == SelectSeq(args, LAMBDA arg : arg.kind = "string")

\* registering the k-th path string of args on the registry regs
RegisterPath(regs, args, k) ==
    add(regs, _getFullPath(PathStrings(args)[k].value, urlPrefix, namespace),
        passthroughVerbs(args))

\* the registry after the first n path strings of args were registered on
\* regs one after the other
RECURSIVE RegisteredUpTo(_, _, _)
RegisteredUpTo(regs, args, n) ==
    IF n = 0 THEN regs
    ELSE RegisterPath(RegisteredUpTo(regs, args, n - 1), args, n).registries

\* registering the k-th path string fails, and none before it does
FirstFailure(regs, args, k) ==
    /\ RegisterPath(RegisteredUpTo(regs, args, k - 1), args, k).thrown # "none"
    /\ \A j \in 1..(k - 1) :
          RegisterPath(RegisteredUpTo(regs, args, j - 1), args, j).thrown = "none"

\* C25: a passthrough(p1, ..., pn) that raises an error has stopped at the
\* first path pk whose registration fails: the registry holds what it held
\* before together with p1 .. p(k-1), neither pk nor any later path was
\* registered, and the error of pk's registration is the one raised.
C25_NotAtomic ==
    (call.op = "passthrough" /\ call.thrown # "none" /\ Len(call.args) > 0) =>
        \E k \in 1..Len(PathStrings(call.args)) :
            /\ FirstFailure(call.before, call.args, k)
            /\ passthroughs = RegisteredUpTo(call.before, call.args, k - 1)
            /\ call.thrown = RegisterPath(passthroughs, call.args, k).thrown

\* passthrough('http://g/b', '/a') without an absolute prefix has raised the
\* error of '/a' and left 'http://g/b', which was not registered before,
\* registered
C25_Witness ==
    /\ call.op = "passthrough"
    /\ call.args = <<ArgString(UrlGB), ArgString(PathA)>>
    /\ call.thrown # "none"
    /\ ~lookup(call.before, <<"g">>, "GET", <<"/", "b">>)
    /\ lookup(passthroughs, <<"g">>, "GET", <<"/", "b">>)
    /\ ~lookup(passthroughs, locationHost, "GET", PathA)

\* ------------------------------------------------------------------------
\* A passthrough declaration without a path (checked under Spec)
\* ------------------------------------------------------------------------

\* C27: a passthrough call that has at least one argument, none of them a
\* path string (only a verb list, say), registers nothing: the registry and
\* the list of predicates are as they were before the call, the default
\* paths '/**' and '/' are not applied, and no error is raised.
C27_NoPathRegistersNothing ==
    (/\ call.op = "passthrough"
     /\ Len(call.args) > 0
     /\ \A i \in 1..Len(call.args) : call.args[i].kind # "string") =>
        /\ passthroughs = call.before
        /\ passthroughChecks = call.checksBefore
        /\ call.thrown = "none"

\* passthrough(['get']) under the prefix 'http://g', where the default
\* paths could have been registered, has left '/' of that host unregistered
C27_Witness ==
    /\ call.op = "passthrough"
    /\ call.args = <<ArgArray(<<"get">>)>>
    /\ urlPrefix = UrlG
    /\ call.thrown = "none"
    /\ ~lookup(passthroughs, <<"g">>, "GET", <<"/">>)

\* ------------------------------------------------------------------------
\* The route handler within the resolver (checked under SpecResolver)
\* ------------------------------------------------------------------------

UnsupportedAccept == "Error: Only json and text responses are supported"

\* C26: the resolver of an intercepted request invokes the route handler of
\* the mocking server exactly once, before the configured delay is applied
\* and before the Accept header is examined: no resolver call has invoked
\* it twice, a call that awaits the delay has invoked it, and so has every
\* call that has read the Accept header and returned or thrown, the
\* unsupported-accept error included, whatever ran while it was suspended.
C26_HandlerOnceAndFirst ==
    /\ \A i \in 1..Len(resolvers) :
          /\ resolvers[i].invoked <= 1
          /\ resolvers[i].pc \in {"handler", "delay"} => resolvers[i].invoked = 1
    /\ call.op = "request" => call.invoked = 1

\* a delayed request whose Accept header names neither json nor text has
\* ended with the error, its route handler invoked, after the worker was
\* stopped and while another resolver call is still suspended
C26_Witness ==
    /\ call.op = "request"
    /\ call.delayed
    /\ call.response.thrown = UnsupportedAccept
    /\ call.invoked = 1
    /\ ~msw.running
    /\ Len(resolvers) > 0

====
